---- MODULE Spec2Model ----
(***************************************************************************)
(* Bulk parcel upload: the review session of UploadPage.tsx (the strict,   *)
(* field-complete variant) together with the edit logic of ParcelTable.tsx *)
(* and the analysis collaborator of geminiService (second half of App.tsx).*)
(*                                                                         *)
(* JavaScript strings are TLA+ strings; a character is a string of length  *)
(* one, read with SubSeq.  JavaScript array indices are kept 0-based in    *)
(* the values the code computes (findIndex gives -1 for "not found").      *)
(***************************************************************************)
EXTENDS Integers, Sequences, FiniteSets, TLC

(***************************************************************************)
(* Bounds of the model.                                                    *)
(***************************************************************************)
\* a session: the number of files the operator may select, and the number
\* of table events (field edits and row removals)
MaxLoads == 1
MaxEdits == 1
\* a session at the table only: the number of table events
MaxTableEdits == 2
\* a session of requests only: the number of files the operator may select
MaxRequestLoads == 2

(***************************************************************************)
(* String primitives of the JavaScript runtime the code relies upon.       *)
(***************************************************************************)
CharAt(s, i) == SubSeq(s, i, i)

\* F(v), with v computed once, before F is entered: "const x = v; ...".
\* TLC may compute the definitions of a LET again at every use.
With(v, F(_)) == CHOOSE r \in {F(x) : x \in {v}} : TRUE

Min(S) == CHOOSE x \in S : \A y \in S : x <= y

\* the value of an absent optional field, an out-of-range index, a missing argument
undefined == "<undefined>"

Digits == {"0", "1", "2", "3", "4", "5", "6", "7", "8", "9"}

\* the white space String.prototype.trim removes: WhiteSpace and
\* LineTerminator of ECMA-262, the part below U+0080 (tab, line feed,
\* vertical tab U+000B, form feed, carriage return, space); the vertical
\* tab has no escape and stands in its string as the character itself
WhiteSpace == {" ", "\t", "\n", "\r", "\f", ""}

RECURSIVE TrimStart(_)
TrimStart(s) ==
    IF Len(s) > 0 /\ CharAt(s, 1) \in WhiteSpace
    THEN TrimStart(SubSeq(s, 2, Len(s)))
    ELSE s

RECURSIVE TrimEnd(_)
TrimEnd(s) ==
    IF Len(s) > 0 /\ CharAt(s, Len(s)) \in WhiteSpace
    THEN TrimEnd(SubSeq(s, 1, Len(s) - 1))
    ELSE s

\* String.prototype.trim
Trim(s) == TrimEnd(TrimStart(s))

\* String.prototype.startsWith
StartsWith(s, p) == Len(s) >= Len(p) /\ SubSeq(s, 1, Len(p)) = p

\* String.prototype.includes
Includes(s, k) == \E i \in 1..(Len(s) - Len(k) + 1) : SubSeq(s, i, i + Len(k) - 1) = k

\* s.replace(/x/g, '') for a character class: keep the characters of Keep
RECURSIVE KeepOnly(_, _)
KeepOnly(s, Keep) ==
    IF Len(s) = 0 THEN ""
    ELSE (IF CharAt(s, 1) \in Keep THEN CharAt(s, 1) ELSE "")
         \o KeepOnly(SubSeq(s, 2, Len(s)), Keep)

(***************************************************************************)
(* Phone normalisation and validation.                                     *)
(***************************************************************************)
allowedPrefixes == {"017", "013", "016", "018", "019", "014", "015"}

\* normalizePhone with the country code cut one character too far
normalizePhoneDropsThree(phone) ==
    LET cleaned == KeepOnly(phone, Digits)
    IN  IF StartsWith(cleaned, "880") /\ Len(cleaned) = 13
        THEN SubSeq(cleaned, 4, Len(cleaned))
        ELSE IF StartsWith(cleaned, "88") /\ Len(cleaned) = 13
        THEN SubSeq(cleaned, 3, Len(cleaned))
        ELSE IF Len(cleaned) = 10 /\ StartsWith(cleaned, "1")
        THEN "0" \o cleaned
        ELSE cleaned

\* UploadPage.normalizePhone
normalizePhone(phone) ==
    LET cleaned == KeepOnly(phone, Digits)
    IN  IF StartsWith(cleaned, "880") /\ Len(cleaned) = 13
        THEN SubSeq(cleaned, 3, Len(cleaned))
        ELSE IF StartsWith(cleaned, "88") /\ Len(cleaned) = 13
        THEN SubSeq(cleaned, 3, Len(cleaned))
        ELSE IF Len(cleaned) = 10 /\ StartsWith(cleaned, "1")
        THEN "0" \o cleaned
        ELSE cleaned

\* ParcelTable.normalizePhoneNumber
normalizePhoneNumber(phone) ==
    LET cleaned == KeepOnly(phone, Digits)
    IN  IF StartsWith(cleaned, "880") /\ Len(cleaned) = 13
        THEN SubSeq(cleaned, 3, Len(cleaned))
        ELSE IF StartsWith(cleaned, "88") /\ Len(cleaned) = 13
        THEN SubSeq(cleaned, 3, Len(cleaned))
        ELSE IF Len(cleaned) = 10 /\ StartsWith(cleaned, "1")
        THEN "0" \o cleaned
        ELSE cleaned

\* UploadPage.validatePhone
validatePhone(phone) ==
    IF Len(phone) # 11 THEN FALSE
    ELSE \E prefix \in allowedPrefixes : StartsWith(phone, prefix)

\* ParcelTable.validatePhone
tableValidatePhone(phone) ==
    IF Len(phone) # 11 THEN FALSE
    ELSE \E prefix \in allowedPrefixes : StartsWith(phone, prefix)

(***************************************************************************)
(* Numbers.  A JavaScript number is [k, m, e]: k = "num" is the decimal    *)
(* m * 10^e with e <= 0 in lowest terms, k = "nan" is NaN and k = "inf" is *)
(* m * Infinity.  Decimal literals are exact here; the rounding of IEEE    *)
(* doubles is outside the model.                                           *)
(***************************************************************************)
RECURSIVE Norm(_, _)
Norm(m, e) ==
    IF m = 0 THEN [k |-> "num", m |-> 0, e |-> 0]
    ELSE IF e > 0 THEN Norm(m * 10, e - 1)
    ELSE IF e < 0 /\ m % 10 = 0 THEN Norm(m \div 10, e + 1)
    ELSE [k |-> "num", m |-> m, e |-> e]

NaN == [k |-> "nan", m |-> 0, e |-> 0]
Infinity(sign) == [k |-> "inf", m |-> sign, e |-> 0]
Zero == Norm(0, 0)

\* ToBoolean of a number: NaN, +0 and -0 are falsy
Truthy(x) == x.k = "inf" \/ (x.k = "num" /\ x.m # 0)
\* x without the || 0: a failed parse stays NaN
NotANumberKept(x) == x

\* x || 0
OrZero(x) == With(x, LAMBDA n : IF Truthy(n) THEN n ELSE Zero)
\* x <= 0 (false for NaN)
LeqZero(x) == x.k # "nan" /\ x.m <= 0
\* x >= 0 (false for NaN)
GeqZero(x) == x.k # "nan" /\ x.m >= 0

DigitVal(c) == CHOOSE n \in 0..9 : CharAt("0123456789", n + 1) = c

RECURSIVE DigitPrefix(_)
DigitPrefix(s) ==
    IF Len(s) > 0 /\ CharAt(s, 1) \in Digits
    THEN CharAt(s, 1) \o DigitPrefix(SubSeq(s, 2, Len(s)))
    ELSE ""

RECURSIVE ToInt(_)
ToInt(ds) ==
    IF Len(ds) = 0 THEN 0
    ELSE ToInt(SubSeq(ds, 1, Len(ds) - 1)) * 10 + DigitVal(CharAt(ds, Len(ds)))

Drop(s, n) == SubSeq(s, n + 1, Len(s))

\* the exponent part at the head of r: its value, 0 when there is none
parseExponent(r) ==
    IF ~(StartsWith(r, "e") \/ StartsWith(r, "E")) THEN 0
    ELSE With(Drop(r, 1), LAMBDA afterE :
         With(IF StartsWith(afterE, "-") \/ StartsWith(afterE, "+")
              THEN Drop(afterE, 1) ELSE afterE, LAMBDA afterSign :
         With(DigitPrefix(afterSign), LAMBDA expDigits :
              IF expDigits = "" THEN 0
              ELSE (IF StartsWith(afterE, "-") THEN -1 ELSE 1) * ToInt(expDigits))))

\* the decimal literal at the head of u, with the sign read before it
parseDecimal(sign, u) ==
    With(DigitPrefix(u), LAMBDA int :
    With(Drop(u, Len(int)), LAMBDA afterInt :
    With(IF StartsWith(afterInt, ".") THEN DigitPrefix(Drop(afterInt, 1)) ELSE "", LAMBDA frac :
         IF int = "" /\ frac = "" THEN NaN
         ELSE With(IF StartsWith(afterInt, ".") THEN Drop(afterInt, 1 + Len(frac)) ELSE afterInt,
                   LAMBDA afterFrac :
                       Norm(sign * ToInt(int \o frac), parseExponent(afterFrac) - Len(frac))))))

\* the global parseFloat: leading white space, sign, Infinity or a decimal
\* literal with optional fraction and exponent; NaN when no literal starts
parseFloat(str) ==
    With(TrimStart(str), LAMBDA t :
    With(IF StartsWith(t, "-") \/ StartsWith(t, "+") THEN Drop(t, 1) ELSE t, LAMBDA u :
         IF StartsWith(u, "Infinity")
         THEN Infinity(IF StartsWith(t, "-") THEN -1 ELSE 1)
         ELSE parseDecimal(IF StartsWith(t, "-") THEN -1 ELSE 1, u)))

(***************************************************************************)
(* The CSV tokenizer of UploadPage (delimiter sniffing and the scan).      *)
(***************************************************************************)
\* (s.match(/c/g) || []).length
CountChar(s, c) == Cardinality({i \in 1..Len(s) : CharAt(s, i) = c})

\* text.split('\n')[0]
FirstLine(text) ==
    LET breaks == {i \in 1..Len(text) : CharAt(text, i) = "\n"}
    IN  IF breaks = {} THEN text ELSE SubSeq(text, 1, Min(breaks) - 1)

sniffDelimiter(text) ==
    LET firstLine  == FirstLine(text)
        commaCount == CountChar(firstLine, ",")
        semiCount  == CountChar(firstLine, ";")
    IN  IF semiCount > commaCount THEN ";" ELSE ","

\* the row pushed when a line break or the end of input closes a row
flushRow(st) ==
    IF st.field # "" \/ Len(st.row) > 0
    THEN Append(st.result, Append(st.row, Trim(st.field)))
    ELSE st.result

\* scanStep closing a field at every delimiter, quoted or not
scanStepSplitsInQuotes(text, delimiter, st, i) ==
    LET char     == CharAt(text, i)
        hasNext  == i + 1 <= Len(text)
        nextChar == IF hasNext THEN CharAt(text, i + 1) ELSE undefined
    IN  IF st.skip THEN [st EXCEPT !.skip = FALSE]
        ELSE IF char = "\""
        THEN IF st.inQuotes /\ nextChar = "\""
             THEN [st EXCEPT !.field = st.field \o "\"", !.skip = TRUE]
             ELSE [st EXCEPT !.inQuotes = ~st.inQuotes]
        ELSE IF char = delimiter
        THEN [st EXCEPT !.row = Append(st.row, Trim(st.field)), !.field = ""]
        ELSE IF (char = "\r" \/ char = "\n") /\ ~st.inQuotes
        THEN [st EXCEPT !.result = flushRow(st), !.row = <<>>, !.field = "",
                        !.skip = (char = "\r" /\ nextChar = "\n")]
        ELSE [st EXCEPT !.field = st.field \o char]

\* One iteration of the for loop of parseCSVContent at the 1-based position
\* i.  st holds the loop's variables; st.skip records the extra i++ the body
\* does after an escaped quote or a \r\n pair, which makes the loop pass over
\* the next position.
scanStep(text, delimiter, st, i) ==
    LET char     == CharAt(text, i)
        hasNext  == i + 1 <= Len(text)
        nextChar == IF hasNext THEN CharAt(text, i + 1) ELSE undefined
    IN  IF st.skip THEN [st EXCEPT !.skip = FALSE]
        ELSE IF char = "\""
        THEN IF st.inQuotes /\ nextChar = "\""
             THEN [st EXCEPT !.field = st.field \o "\"", !.skip = TRUE]
             ELSE [st EXCEPT !.inQuotes = ~st.inQuotes]
        ELSE IF char = delimiter /\ ~st.inQuotes
        THEN [st EXCEPT !.row = Append(st.row, Trim(st.field)), !.field = ""]
        ELSE IF (char = "\r" \/ char = "\n") /\ ~st.inQuotes
        THEN [st EXCEPT !.result = flushRow(st), !.row = <<>>, !.field = "",
                        !.skip = (char = "\r" /\ nextChar = "\n")]
        ELSE [st EXCEPT !.field = st.field \o char]

\* the iterations lo..hi of the loop, in order
RECURSIVE scanRange(_, _, _, _, _)
scanRange(text, delimiter, st, lo, hi) ==
    IF lo > hi THEN st
    ELSE With(scanStep(text, delimiter, st, lo),
              LAMBDA nxt : scanRange(text, delimiter, nxt, lo + 1, hi))

\* the iterations lo..Len(text) of the loop, taken in blocks of 16 so that
\* the evaluation depth stays far below the length of the text
RECURSIVE scanCSV(_, _, _, _)
scanCSV(text, delimiter, st, lo) ==
    IF lo > Len(text) THEN st
    ELSE With(scanRange(text, delimiter, st, lo, Min({lo + 15, Len(text)})),
              LAMBDA nxt : scanCSV(text, delimiter, nxt, Min({lo + 15, Len(text)}) + 1))

parseCSVContent(text) ==
    With(sniffDelimiter(text), LAMBDA delimiter :
         flushRow(scanCSV(text, delimiter,
                          [result |-> <<>>, row |-> <<>>, field |-> "",
                           inQuotes |-> FALSE, skip |-> FALSE], 1)))

(***************************************************************************)
(* Records.  A parcel is a record with the fields of types.ts plus the     *)
(* codAmount the strict variant adds; an absent optional field holds       *)
(* undefined.                                                              *)
(***************************************************************************)
\* ToBoolean of a string or undefined
TruthyStr(x) == x # undefined /\ x # ""

DuplicateMsg == "Duplicate Invoice ID"
PhoneMsg     == "Invalid Operator/Length"
MissingMsg   == "Missing Required Fields"

UpperCase == "ABCDEFGHIJKLMNOPQRSTUVWXYZ"
LowerCase == "abcdefghijklmnopqrstuvwxyz"

\* the lower-case letter of each upper-case letter
LowerOf ==
    [c \in {CharAt(UpperCase, i) : i \in 1..26} |->
        CharAt(LowerCase, CHOOSE i \in 1..26 : CharAt(UpperCase, i) = c)]

\* String.prototype.toLowerCase (ASCII part)
RECURSIVE toLowerCase(_)
toLowerCase(s) ==
    IF Len(s) = 0 THEN ""
    ELSE (IF CharAt(s, 1) \in DOMAIN LowerOf THEN LowerOf[CharAt(s, 1)] ELSE CharAt(s, 1))
         \o toLowerCase(SubSeq(s, 2, Len(s)))

\* s.replace(a, b) with a string pattern: the first occurrence only
RECURSIVE ReplaceFirst(_, _, _)
ReplaceFirst(s, a, b) ==
    IF Len(s) = 0 THEN ""
    ELSE IF CharAt(s, 1) = a THEN b \o SubSeq(s, 2, Len(s))
    ELSE CharAt(s, 1) \o ReplaceFirst(SubSeq(s, 2, Len(s)), a, b)

(***************************************************************************)
(* processCSVData: header inference, record building, first validation.    *)
(***************************************************************************)
invoiceKeywords == <<"invoice", "inv", "id", "sl", "no">>
nameKeywords    == <<"name", "recipient", "customer", "receiver", "client">>
phoneKeywords   == <<"phone", "mobile", "contact", "number", "tel", "cell">>
addressKeywords == <<"address", "location", "dest", "place", "area", "full">>
codKeywords     == <<"cod", "cash", "amount", "collect">>
weightKeywords  == <<"weight", "kg", "mass", "gm", "gram">>
noteKeywords    == <<"note", "comment", "instruction", "remarks", "msg">>

\* keywords.some(k => h.includes(k.toLowerCase())) for the lowered, trimmed h
matchesAny(h, keywords) ==
    \E n \in 1..Len(keywords) :
        With(toLowerCase(keywords[n]), LAMBDA k : Includes(h, k))

\* headerRow.findIndex(h => keywords.some(k => h.toLowerCase().trim().includes(k)));
\* lowered is the header row with toLowerCase().trim() applied to each cell
findIndex(lowered, keywords) ==
    With({j \in 1..Len(lowered) : matchesAny(lowered[j], keywords)},
         LAMBDA hits : IF hits = {} THEN -1 ELSE Min(hits) - 1)

\* the object idx of processCSVData
headerIndex(headerRow) ==
    With(SelectSeq([j \in 1..Len(headerRow) |-> Trim(toLowerCase(headerRow[j]))],
                   LAMBDA h : TRUE),
         LAMBDA lowered :
             [invoice |-> findIndex(lowered, invoiceKeywords),
              name    |-> findIndex(lowered, nameKeywords),
              phone   |-> findIndex(lowered, phoneKeywords),
              address |-> findIndex(lowered, addressKeywords),
              cod     |-> findIndex(lowered, codKeywords),
              weight  |-> findIndex(lowered, weightKeywords),
              note    |-> findIndex(lowered, noteKeywords)])

\* getVal without the positional fallback: an absent column reads as empty
getValFoundOnly(row, foundIdx, fallbackIdx) ==
    IF foundIdx # -1 /\ foundIdx + 1 \in 1..Len(row) THEN Trim(row[foundIdx + 1]) ELSE ""

\* getVal of processCSVData
getVal(row, foundIdx, fallbackIdx) ==
    LET finalIdx == IF foundIdx # -1 THEN foundIdx ELSE fallbackIdx
    IN  IF finalIdx + 1 \in 1..Len(row) THEN Trim(row[finalIdx + 1]) ELSE ""

\* the record one data row maps to; id is the value uuidv4 returns for it
buildParcel(row, idx, id) ==
    LET rawWeight == ReplaceFirst(getVal(row, idx.weight, 5), ",", ".")
        rawCod    == KeepOnly(getVal(row, idx.cod, 4), Digits \cup {"."})
    IN  [id            |-> id,
         invoiceId     |-> getVal(row, idx.invoice, 0),
         recipientName |-> getVal(row, idx.name, 1),
         phone         |-> normalizePhone(getVal(row, idx.phone, 2)),
         address       |-> getVal(row, idx.address, 3),
         codAmount     |-> OrZero(parseFloat(rawCod)),
         weight        |-> OrZero(parseFloat(rawWeight)),
         note          |-> getVal(row, idx.note, 6),
         serviceType   |-> "Standard",
         status        |-> "PENDING",
         statusMessage |-> undefined]

\* the row filter keeping also the rows that hold nothing but a note
keepsRowWithNote(p) ==
    p.invoiceId # "" \/ p.recipientName # "" \/ p.phone # "" \/ p.address # ""
    \/ p.note # ""

\* the row filter of processCSVData
keepsRow(p) ==
    p.invoiceId # "" \/ p.recipientName # "" \/ p.phone # "" \/ p.address # ""

\* the names idCounts = {} inherits from Object.prototype
ObjectPrototypeKeys ==
    {"constructor", "toString", "toLocaleString", "valueOf", "hasOwnProperty",
     "isPrototypeOf", "propertyIsEnumerable", "__proto__", "__defineGetter__",
     "__defineSetter__", "__lookupGetter__", "__lookupSetter__"}

\* String(Object.prototype[key]) for a key of ObjectPrototypeKeys
inheritedText(key) ==
    IF key = "constructor" THEN "function Object() { [native code] }"
    ELSE IF key = "__proto__" THEN "[object Object]"
    ELSE "function " \o key \o "() { [native code] }"

RECURSIVE Ones(_)
Ones(n) == IF n = 0 THEN "" ELSE "1" \o Ones(n - 1)

\* idCounts[key] once "idCounts[key] = (idCounts[key] || 0) + 1" has run n
\* times for key, as a JavaScript value with its type.  An inherited name
\* reads as the inherited function the first time, which is truthy, and
\* "+ 1" appends to its text; the assignment to __proto__ is swallowed.
censusEntry(key, n) ==
    IF key = "__proto__" THEN [type |-> "object", value |-> inheritedText(key)]
    ELSE IF key \in ObjectPrototypeKeys
    THEN IF n = 0 THEN [type |-> "function", value |-> inheritedText(key)]
         ELSE [type |-> "string", value |-> inheritedText(key) \o Ones(n)]
    ELSE IF n = 0 THEN [type |-> "undefined", value |-> undefined]
    ELSE [type |-> "number", value |-> n]

\* v > 1 for a census entry v: every other entry than a number converts to
\* NaN, and a comparison with NaN is false
exceedsOne(v) == v.type = "number" /\ v.value > 1

\* idCounts[tid] of processCSVData and handleRemoveParcel (trimmed ids)
idCountTrimmed(list, tid) ==
    censusEntry(tid, Cardinality({i \in 1..Len(list) : Trim(list[i].invoiceId) = tid}))

\* the final map of processCSVData
importStatus(list, p) ==
    LET tid == Trim(p.invoiceId)
    IN  IF tid # "" /\ exceedsOne(idCountTrimmed(list, tid))
        THEN [p EXCEPT !.status = "WARNING", !.statusMessage = DuplicateMsg]
        ELSE IF ~validatePhone(p.phone)
        THEN [p EXCEPT !.status = "ERROR", !.statusMessage = PhoneMsg]
        ELSE p

\* rows is the tokenizer's output; the k-th data row gets the id base + k
processCSVData(rows, base) ==
    IF Len(rows) < 1 THEN <<>>
    ELSE With(headerIndex(rows[1]), LAMBDA idx :
         With(SelectSeq([k \in 1..(Len(rows) - 1) |->
                            buildParcel(rows[k + 1], idx, base + k)], keepsRow),
              LAMBDA initialParcels :
                  [i \in 1..Len(initialParcels) |->
                      importStatus(initialParcels, initialParcels[i])]))

(***************************************************************************)
(* The re-validation of ParcelTable.updateParcel.                          *)
(***************************************************************************)
\* a field of { ...p, ...updates }
Spread(p, updates, f) == IF f \in DOMAIN updates THEN updates[f] ELSE p[f]

\* applyUpdates storing a phone as it was typed
applyUpdatesPhoneAsTyped(p, id, updates) ==
    IF p.id # id THEN p
    ELSE [f \in DOMAIN p |-> Spread(p, updates, f)]

\* the first map of updateParcel, for one record
applyUpdates(p, id, updates) ==
    IF p.id # id THEN p
    ELSE [id            |-> Spread(p, updates, "id"),
          invoiceId     |-> Spread(p, updates, "invoiceId"),
          recipientName |-> Spread(p, updates, "recipientName"),
          phone         |-> IF "phone" \in DOMAIN updates /\ updates.phone # undefined
                            THEN normalizePhoneNumber(updates.phone)
                            ELSE Spread(p, updates, "phone"),
          address       |-> Spread(p, updates, "address"),
          codAmount     |-> Spread(p, updates, "codAmount"),
          weight        |-> Spread(p, updates, "weight"),
          note          |-> Spread(p, updates, "note"),
          serviceType   |-> Spread(p, updates, "serviceType"),
          status        |-> Spread(p, updates, "status"),
          statusMessage |-> Spread(p, updates, "statusMessage")]

\* idCounts[p.invoiceId] of updateParcel: the ids are counted as they are
idCountRaw(list, inv) ==
    censusEntry(inv, Cardinality({i \in 1..Len(list) : list[i].invoiceId = inv}))

\* revalidate looking at the required fields only of the records that are
\* not ERROR yet
revalidateUnlessError(next, p) ==
    LET isDuplicate     == p.invoiceId # "" /\ exceedsOne(idCountRaw(next, p.invoiceId))
        isInvalidPhone  == ~tableValidatePhone(p.phone)
        isMissingFields == p.status # "ERROR"
                           /\ (p.invoiceId = "" \/ p.recipientName = "" \/ p.address = ""
                               \/ LeqZero(p.weight))
    IN  IF isDuplicate
        THEN [p EXCEPT !.status = "WARNING", !.statusMessage = DuplicateMsg]
        ELSE IF isInvalidPhone
        THEN [p EXCEPT !.status = "ERROR", !.statusMessage = PhoneMsg]
        ELSE IF isMissingFields
        THEN [p EXCEPT !.status = "ERROR", !.statusMessage = MissingMsg]
        ELSE [p EXCEPT !.status = "VALID", !.statusMessage = undefined]

\* the second map of updateParcel, for one record
revalidate(next, p) ==
    LET isDuplicate     == p.invoiceId # "" /\ exceedsOne(idCountRaw(next, p.invoiceId))
        isInvalidPhone  == ~tableValidatePhone(p.phone)
        isMissingFields == p.invoiceId = "" \/ p.recipientName = "" \/ p.address = ""
                           \/ LeqZero(p.weight)
    IN  IF isDuplicate
        THEN [p EXCEPT !.status = "WARNING", !.statusMessage = DuplicateMsg]
        ELSE IF isInvalidPhone
        THEN [p EXCEPT !.status = "ERROR", !.statusMessage = PhoneMsg]
        ELSE IF isMissingFields
        THEN [p EXCEPT !.status = "ERROR", !.statusMessage = MissingMsg]
        ELSE [p EXCEPT !.status = "VALID", !.statusMessage = undefined]

\* the second map of updateParcel, over the list next
revalidateAll(next) == [i \in 1..Len(next) |-> revalidate(next, next[i])]

\* the state updater updateParcel passes to setParcels
updateParcel(prevList, id, updates) ==
    With([i \in 1..Len(prevList) |-> applyUpdates(prevList[i], id, updates)],
         LAMBDA next : [i \in 1..Len(next) |-> revalidate(next, next[i])])

(***************************************************************************)
(* UploadPage.handleRemoveParcel.                                          *)
(***************************************************************************)
\* removeStatus without the healing branch: a record marked duplicate keeps
\* its mark when its sibling is gone
removeStatusKeepsMark(filtered, p) ==
    LET tid                        == Trim(p.invoiceId)
        isCurrentlyMarkedDuplicate == p.statusMessage = DuplicateMsg
        isStillDuplicate           == tid # "" /\ exceedsOne(idCountTrimmed(filtered, tid))
    IN  IF ~isCurrentlyMarkedDuplicate /\ isStillDuplicate
        THEN [p EXCEPT !.status = "WARNING", !.statusMessage = DuplicateMsg]
        ELSE p

\* the map of handleRemoveParcel, for one record of the filtered list
removeStatus(filtered, p) ==
    LET tid                        == Trim(p.invoiceId)
        isCurrentlyMarkedDuplicate == p.statusMessage = DuplicateMsg
        isStillDuplicate           == tid # "" /\ exceedsOne(idCountTrimmed(filtered, tid))
    IN  IF isCurrentlyMarkedDuplicate /\ ~isStillDuplicate
        THEN IF ~validatePhone(p.phone)
             THEN [p EXCEPT !.status = "ERROR", !.statusMessage = PhoneMsg]
             ELSE [p EXCEPT !.status = "VALID", !.statusMessage = undefined]
        ELSE IF ~isCurrentlyMarkedDuplicate /\ isStillDuplicate
        THEN [p EXCEPT !.status = "WARNING", !.statusMessage = DuplicateMsg]
        ELSE p

\* handleRemoveParcel removing every record with the invoice id of the
\* record removed
handleRemoveParcelByInvoice(prevList, id) ==
    With(SelectSeq(prevList, LAMBDA p :
             \A q \in {prevList[i] : i \in 1..Len(prevList)} :
                 q.id = id => p.invoiceId # q.invoiceId),
         LAMBDA filtered : [i \in 1..Len(filtered) |-> removeStatus(filtered, filtered[i])])

\* the state updater handleRemoveParcel passes to setParcels
handleRemoveParcel(prevList, id) ==
    With(SelectSeq(prevList, LAMBDA p : p.id # id),
         LAMBDA filtered : [i \in 1..Len(filtered) |-> removeStatus(filtered, filtered[i])])

(***************************************************************************)
(* The analysis collaborator and the overlay of startAIAnalysis.           *)
(***************************************************************************)
\* what GeminiService.analyzeParcels returns from its catch block
fallbackResult ==
    [summary         |-> "Could not complete AI analysis at this time.",
     recommendations |-> <<"Manually verify all addresses", "Check weight constraints">>,
     correctedParcels |-> <<>>]

\* String(x) inside a template literal
templateText(x) == IF x = undefined THEN "undefined" ELSE x

\* result.correctedParcels.find(c => c.id === p.id), as a set of at most one
findCorrection(result, p) ==
    LET hits == {n \in 1..Len(result.correctedParcels) : result.correctedParcels[n].id = p.id}
    IN  IF hits = {} THEN {} ELSE {result.correctedParcels[Min(hits)]}

\* overlayParcel putting the issue of a correction in the place of the reason
\* the record had
overlayParcelReplacesReason(result, p) ==
    LET found == findCorrection(result, p)
    IN  IF found # {}
        THEN LET correction == CHOOSE c \in found : TRUE
             IN  [p EXCEPT !.status = "WARNING",
                           !.statusMessage = correction.issue,
                           !.address = IF TruthyStr(correction.suggestedAddress)
                                       THEN correction.suggestedAddress
                                       ELSE p.address]
        ELSE [p EXCEPT !.status = IF p.status = "PENDING" THEN "VALID" ELSE p.status]

\* overlayParcel noting the issue of a correction without raising the status
overlayParcelKeepsStatus(result, p) ==
    LET found == findCorrection(result, p)
    IN  IF found # {}
        THEN LET correction == CHOOSE c \in found : TRUE
             IN  [p EXCEPT !.statusMessage =
                               IF TruthyStr(p.statusMessage)
                               THEN p.statusMessage \o " & " \o templateText(correction.issue)
                               ELSE correction.issue,
                           !.address = IF TruthyStr(correction.suggestedAddress)
                                       THEN correction.suggestedAddress
                                       ELSE p.address]
        ELSE [p EXCEPT !.status = IF p.status = "PENDING" THEN "VALID" ELSE p.status]

\* the map of startAIAnalysis, for one record
overlayParcel(result, p) ==
    LET found == findCorrection(result, p)
    IN  IF found # {}
        THEN LET correction == CHOOSE c \in found : TRUE
             IN  [p EXCEPT !.status = "WARNING",
                           !.statusMessage =
                               IF TruthyStr(p.statusMessage)
                               THEN p.statusMessage \o " & " \o templateText(correction.issue)
                               ELSE correction.issue,
                           !.address = IF TruthyStr(correction.suggestedAddress)
                                       THEN correction.suggestedAddress
                                       ELSE p.address]
        ELSE [p EXCEPT !.status = IF p.status = "PENDING" THEN "VALID" ELSE p.status]

\* updatedParcels of startAIAnalysis; captured is the list the call started with
overlay(captured, result) ==
    [i \in 1..Len(captured) |-> overlayParcel(result, captured[i])]

(***************************************************************************)
(* The confirmation gate.                                                  *)
(***************************************************************************)
\* hasDuplicates over the ids as typed, without the trim
hasDuplicatesUntrimmed(list) ==
    With(SelectSeq([i \in 1..Len(list) |-> list[i].invoiceId], LAMBDA t : t # ""),
         LAMBDA ids : Cardinality({ids[i] : i \in 1..Len(ids)}) # Len(ids))

\* the useMemo hasDuplicates
hasDuplicates(list) ==
    With(SelectSeq([i \in 1..Len(list) |-> Trim(list[i].invoiceId)], LAMBDA t : t # ""),
         LAMBDA ids : Cardinality({ids[i] : i \in 1..Len(ids)}) # Len(ids))

\* the useMemo hasErrors
hasErrors(list) == \E i \in 1..Len(list) : list[i].status = "ERROR"

CountStatus(list, st) == Cardinality({i \in 1..Len(list) : list[i].status = st})

\* makeBatch counting every record as valid
makeBatchAllValid(list, id) ==
    [id           |-> id,
     totalParcels |-> Len(list),
     validParcels |-> Len(list),
     errorParcels |-> CountStatus(list, "ERROR"),
     parcels      |-> list]

\* the batch confirmUpload assembles (the timestamp is not part of the model)
makeBatch(list, id) ==
    [id           |-> id,
     totalParcels |-> Len(list),
     validParcels |-> CountStatus(list, "VALID"),
     errorParcels |-> CountStatus(list, "ERROR"),
     parcels      |-> list]

(***************************************************************************)
(* The inputs of the model: the files the operator can select, the values  *)
(* typed into the table, and the results the analysis can return.          *)
(***************************************************************************)
TemplateHeader ==
    "Invoice ID,Recipient Name,Phone Number,Full Address,COD Amount,Weight (kg),Note"

\* two rows with the same invoice id; the second lacks the recipient name
FileDupMissing ==
    TemplateHeader \o "\nX,A,01712345678,D,0,1,n\nX,,+880 1712-345678,D,0,1,n"
\* two rows with the same invoice id; the second has a phone of no operator
FileDupBadPhone ==
    TemplateHeader \o "\r\nX,A,1712345678,D,50,0.5,\r\nX,B,02712345678,\"D, E\",0,1,\r\n"
\* two complete rows with different invoice ids
FileClean ==
    TemplateHeader \o "\nX,A,8801712345678,D,0,1,\nY,B,01812345678,D,0,2,"
\* two rows without invoice id, semicolon separated
FileNoIds ==
    "Invoice;Name;Phone;Address;COD;Weight;Note\n;A;01712345678;D;0;1;\n;B;01912345678;D;0;1;"
\* a header and a row that the row filter drops
FileNoRecords ==
    TemplateHeader \o "\n,,,,0,5,note\n"
\* a complete row whose invoice id names a member of Object.prototype, and
\* a row with another id, between vertical tabs, and a phone of no operator
FileInheritedId ==
    TemplateHeader \o "\nconstructor,A,01712345678,D,0,1,\nY,C,02712345678,D,0,1,"

Files == {FileDupMissing, FileDupBadPhone, FileClean, FileNoIds, FileNoRecords,
          FileInheritedId}

\* parseCSVContent(text) and processCSVData(rows) for each file, worked out
\* once; the records carry the ids base + k for base = 0
FileRows    == [text \in Files |-> parseCSVContent(text)]
FileParcels == [text \in Files |-> processCSVData(FileRows[text], 0)]

\* the records of list with the ids uuidv4 returns after base earlier calls:
\* withIds(processCSVData(rows, 0), base) is processCSVData(rows, base)
withIds(list, base) == [i \in 1..Len(list) |-> [list[i] EXCEPT !.id = @ + base]]

\* e.target.value of the text inputs of a table row
InvoiceInputs == {" ", "X", "X ", "constructor"}
NameInputs    == {"", "A"}
PhoneInputs   == {"+880 1712-345678", "02712345678"}
AddressInputs == {""}
NoteInputs    == {"n"}
\* e.target.value of the number inputs of a table row
CodInputs     == {"20"}
WeightInputs  == {"-1", "1.5"}

\* the updates object the onChange handler of a column passes to updateParcel
EditUpdates ==
    {[invoiceId |-> v] : v \in InvoiceInputs}
    \cup {[recipientName |-> v] : v \in NameInputs}
    \cup {[phone |-> v] : v \in PhoneInputs}
    \cup {[address |-> v] : v \in AddressInputs}
    \cup {[codAmount |-> OrZero(parseFloat(v))] : v \in CodInputs}
    \cup {[weight |-> OrZero(parseFloat(v))] : v \in WeightInputs}
    \cup {[note |-> v] : v \in NoteInputs}

\* JSON the collaborator may answer with that is not of the shape asked
\* for: analyzeParcels returns JSON.parse(response.text) as it is, and the
\* responseSchema of the request is not checked on this side
MalformedResults ==
    {[summary |-> "s", recommendations |-> <<>>],
     [summary |-> "s"]}

\* the results a successful analysis of the list sent may return
AnalysisResults(sent) ==
    MalformedResults \cup
    {[summary |-> "ok", recommendations |-> <<>>, correctedParcels |-> <<>>],
     [summary |-> "ok", recommendations |-> <<"r">>,
      correctedParcels |-> <<[id |-> sent[1].id, issue |-> "I", suggestedAddress |-> "S"]>>],
     [summary |-> "ok", recommendations |-> <<"r">>,
      correctedParcels |-> <<[id |-> sent[Len(sent)].id, issue |-> "I",
                              suggestedAddress |-> undefined]>>]}

NoDataMsg == "No valid data found. Please use the official template."

(***************************************************************************)
(* The state of a session.                                                 *)
(*   parcels .. step   the React state of UploadPage; aiResult is <<>> for *)
(*                     null and <<r>> for the result r, uploadError is     *)
(*                     undefined for null                                  *)
(*   reader            the texts of the file reads in flight               *)
(*   aiCall            the lists captured by the analysis calls in flight  *)
(*   batches           the arguments of the calls of onBatchComplete       *)
(*   uuid              the number of ids uuidv4 has handed out             *)
(*   loadsLeft,        the files that may still be selected, and the table *)
(*   editsLeft         events that may still happen, in this behaviour     *)
(*   lastOp, prev      the last handler that ran, and, when that was a     *)
(*                     handler of the table, parcels before it (else <<>>) *)
(*   trail             what has shaped parcels since the last import       *)
(*   probe             the argument of a function studied on its own and   *)
(*                     what the function made of it (<<>> until the        *)
(*                     function has been applied)                          *)
(***************************************************************************)
VARIABLES parcels, isAnalyzing, isReading, uploadError, aiResult, step,
          reader, aiCall, batches, uuid, loadsLeft, editsLeft, lastOp, prev, trail,
          probe

sessionVars == <<parcels, isAnalyzing, isReading, uploadError, aiResult, step,
                 reader, aiCall, batches, uuid, loadsLeft, editsLeft, lastOp, prev, trail>>

vars == <<sessionVars, probe>>

Op(name, id, updates) == [op |-> name, id |-> id, updates |-> updates]

\* a probe of the phone text s, no function applied yet
Probe(s) == [input |-> s, upload |-> <<>>, table |-> <<>>,
             valid |-> <<>>, tableValid |-> <<>>]

\* UploadPage as mounted (the state of the hooks and of what is in flight)
SessionInit ==
    /\ parcels = <<>>
    /\ isAnalyzing = FALSE
    /\ isReading = FALSE
    /\ uploadError = undefined
    /\ aiResult = <<>>
    /\ step = 1
    /\ reader = <<>>
    /\ aiCall = <<>>
    /\ batches = <<>>
    /\ uuid = 0
    /\ lastOp = Op("init", 0, <<>>)
    /\ prev = <<>>
    /\ trail = "none"

Init ==
    /\ SessionInit
    /\ loadsLeft = MaxLoads
    /\ editsLeft = MaxEdits
    /\ probe = Probe("")

\* handleFileUpload from a file input that stays enabled while isReading
SelectFileWhileReading ==
    /\ step = 1
    /\ loadsLeft > 0
    /\ \E text \in Files : reader' = Append(reader, text)
    /\ uploadError' = undefined
    /\ isReading' = TRUE
    /\ loadsLeft' = loadsLeft - 1
    /\ lastOp' = Op("handleFileUpload", 0, <<>>)
    /\ prev' = <<>>
    /\ UNCHANGED <<parcels, isAnalyzing, aiResult, step, aiCall, batches, uuid, editsLeft,
                   trail, probe>>

\* handleFileUpload: the file input of step 1, disabled while isReading
SelectFile ==
    /\ step = 1 /\ ~isReading
    /\ loadsLeft > 0
    /\ \E text \in Files : reader' = Append(reader, text)
    /\ uploadError' = undefined
    /\ isReading' = TRUE
    /\ loadsLeft' = loadsLeft - 1
    /\ lastOp' = Op("handleFileUpload", 0, <<>>)
    /\ prev' = <<>>
    /\ UNCHANGED probe
    /\ UNCHANGED <<parcels, isAnalyzing, aiResult, step, aiCall, batches, uuid, editsLeft, trail>>

\* reader.onload: the text is tokenized and the records are built
ReaderLoad ==
    /\ reader # <<>>
    /\ \E rows \in {FileRows[Head(reader)]} :
       \E parsedData \in {withIds(FileParcels[Head(reader)], uuid)} :
           /\ uuid' = uuid + (IF Len(rows) < 1 THEN 0 ELSE Len(rows) - 1)
           /\ IF Len(parsedData) = 0
              THEN /\ uploadError' = NoDataMsg
                   /\ UNCHANGED <<parcels, step, trail>>
              ELSE /\ parcels' = parsedData
                   /\ step' = 2
                   /\ trail' = "clean"
                   /\ UNCHANGED uploadError
    /\ isReading' = FALSE
    /\ reader' = Tail(reader)
    /\ lastOp' = Op("onload", 0, <<>>)
    /\ prev' = <<>>
    /\ UNCHANGED probe
    /\ UNCHANGED <<isAnalyzing, aiResult, aiCall, batches, loadsLeft, editsLeft>>

\* the read fails: this variant registers no onerror handler
ReaderError ==
    /\ reader # <<>>
    /\ reader' = Tail(reader)
    /\ lastOp' = Op("onerror", 0, <<>>)
    /\ prev' = <<>>
    /\ UNCHANGED probe
    /\ UNCHANGED <<parcels, isAnalyzing, isReading, uploadError, aiResult, step,
                   aiCall, batches, uuid, loadsLeft, editsLeft, trail>>

\* an onChange of a table row: updateParcel(id, updates)
EditParcel ==
    /\ step = 2
    /\ editsLeft > 0
    /\ \E i \in 1..Len(parcels), updates \in EditUpdates :
          /\ parcels' = updateParcel(parcels, parcels[i].id, updates)
          /\ lastOp' = Op("updateParcel", parcels[i].id, updates)
    /\ editsLeft' = editsLeft - 1
    /\ prev' = parcels
    /\ UNCHANGED probe
    /\ UNCHANGED <<isAnalyzing, isReading, uploadError, aiResult, step, reader,
                   aiCall, batches, uuid, loadsLeft, trail>>

\* the remove button of a table row: handleRemoveParcel(id)
RemoveParcel ==
    /\ step = 2
    /\ editsLeft > 0
    /\ \E i \in 1..Len(parcels) :
          /\ parcels' = handleRemoveParcel(parcels, parcels[i].id)
          /\ lastOp' = Op("handleRemoveParcel", parcels[i].id, <<>>)
    /\ editsLeft' = editsLeft - 1
    /\ prev' = parcels
    /\ UNCHANGED probe
    /\ UNCHANGED <<isAnalyzing, isReading, uploadError, aiResult, step, reader,
                   aiCall, batches, uuid, loadsLeft, trail>>

\* startAIAnalysis up to its await; the button shows while aiResult is null
\* and is disabled while isAnalyzing or when the list is empty
StartAnalysis ==
    /\ step = 2 /\ aiResult = <<>> /\ ~isAnalyzing
    /\ Len(parcels) # 0
    /\ isAnalyzing' = TRUE
    /\ aiCall' = Append(aiCall, parcels)
    /\ lastOp' = Op("startAIAnalysis", 0, <<>>)
    /\ prev' = <<>>
    /\ UNCHANGED probe
    /\ UNCHANGED <<parcels, isReading, uploadError, aiResult, step, reader,
                   batches, uuid, loadsLeft, editsLeft, trail>>

\* startAIAnalysis after its await, applying the result to the list as it is
\* when the result arrives
FinishAnalysisOnCurrent(result) ==
    /\ parcels' = overlay(parcels, result)
    /\ aiResult' = <<result>>
    /\ isAnalyzing' = FALSE
    /\ aiCall' = Tail(aiCall)
    /\ trail' = "overlaid"
    /\ prev' = <<>>
    /\ UNCHANGED probe
    /\ UNCHANGED <<isReading, uploadError, step, reader, batches, uuid, loadsLeft, editsLeft>>

\* startAIAnalysis after its await, with the result the call resolved to
FinishAnalysis(result) ==
    /\ parcels' = overlay(Head(aiCall), result)
    /\ aiResult' = <<result>>
    /\ isAnalyzing' = FALSE
    /\ aiCall' = Tail(aiCall)
    /\ trail' = "overlaid"
    /\ prev' = <<>>
    /\ UNCHANGED probe
    /\ UNCHANGED <<isReading, uploadError, step, reader, batches, uuid, loadsLeft, editsLeft>>

\* startAIAnalysis after its await, with a result that has no
\* correctedParcels: result.correctedParcels.find throws for the first
\* record, outside any try, and the three setters are never reached
AnalysisThrows ==
    /\ aiCall' = Tail(aiCall)
    /\ lastOp' = Op("analysisThrows", 0, <<>>)
    /\ prev' = <<>>
    /\ UNCHANGED <<parcels, isAnalyzing, isReading, uploadError, aiResult, step, reader,
                   batches, uuid, loadsLeft, editsLeft, trail, probe>>

\* the collaborator answers
AnalysisReturns ==
    /\ aiCall # <<>>
    /\ \E result \in AnalysisResults(Head(aiCall)) :
          IF "correctedParcels" \notin DOMAIN result /\ Len(Head(aiCall)) > 0
          THEN AnalysisThrows
          ELSE /\ FinishAnalysis(result)
               /\ lastOp' = Op("analysisReturns", 0, <<>>)

\* the collaborator fails: analyzeParcels catches and returns the fallback
AnalysisFails ==
    /\ aiCall # <<>>
    /\ FinishAnalysis(fallbackResult)
    /\ lastOp' = Op("analysisFails", 0, <<>>)

\* confirmUpload without its setStep(3): the loaded list stays on screen
ConfirmUploadStaysOnReview ==
    /\ step = 2
    /\ Len(parcels) # 0
    /\ IF hasDuplicates(parcels) \/ hasErrors(parcels)
       THEN /\ lastOp' = Op("confirmUpload", 0, <<"blocked">>)
            /\ UNCHANGED <<batches, uuid>>
       ELSE /\ batches' = Append(batches, makeBatch(parcels, uuid + 1))
            /\ uuid' = uuid + 1
            /\ lastOp' = Op("confirmUpload", 0, <<"emitted">>)
    /\ prev' = <<>>
    /\ UNCHANGED <<parcels, isAnalyzing, isReading, uploadError, aiResult, step,
                   reader, aiCall, loadsLeft, editsLeft, trail, probe>>

\* confirmUpload, from the confirm button of a loaded list.  The button is
\* also disabled while the gate of the handler is closed; the model lets
\* that click through, so that it is the handler's own gate that refuses.
ConfirmUpload ==
    /\ step = 2
    /\ Len(parcels) # 0
    /\ IF hasDuplicates(parcels) \/ hasErrors(parcels)
       THEN /\ lastOp' = Op("confirmUpload", 0, <<"blocked">>)
            /\ UNCHANGED <<batches, uuid, step>>
       ELSE /\ batches' = Append(batches, makeBatch(parcels, uuid + 1))
            /\ uuid' = uuid + 1
            /\ step' = 3
            /\ lastOp' = Op("confirmUpload", 0, <<"emitted">>)
    /\ prev' = <<>>
    /\ UNCHANGED probe
    /\ UNCHANGED <<parcels, isAnalyzing, isReading, uploadError, aiResult, reader,
                   aiCall, loadsLeft, editsLeft, trail>>

\* handleBack
HandleBack ==
    /\ step = 2
    /\ step' = 1
    /\ aiResult' = <<>>
    /\ lastOp' = Op("handleBack", 0, <<>>)
    /\ prev' = <<>>
    /\ UNCHANGED probe
    /\ UNCHANGED <<parcels, isAnalyzing, isReading, uploadError, reader, aiCall,
                   batches, uuid, loadsLeft, editsLeft, trail>>

\* resetUpload: "Discard Batch" of step 2, "Start New Upload" of step 3
ResetUpload ==
    /\ step \in {2, 3}
    /\ step' = 1
    /\ parcels' = <<>>
    /\ aiResult' = <<>>
    /\ uploadError' = undefined
    /\ trail' = "none"
    /\ lastOp' = Op("resetUpload", 0, <<>>)
    /\ prev' = <<>>
    /\ UNCHANGED probe
    /\ UNCHANGED <<isAnalyzing, isReading, reader, aiCall, batches, uuid, loadsLeft, editsLeft>>

Next ==
    \/ SelectFile
    \/ ReaderLoad
    \/ ReaderError
    \/ EditParcel
    \/ RemoveParcel
    \/ StartAnalysis
    \/ AnalysisReturns
    \/ AnalysisFails
    \/ ConfirmUpload
    \/ HandleBack
    \/ ResetUpload

Spec == Init /\ [][Next]_vars

(***************************************************************************)
(* A session without table events, in which a call of the collaborator     *)
(* does not stay pending for ever: the promise of generateContent settles, *)
(* one way or the other.                                                   *)
(***************************************************************************)
InitSettling ==
    /\ SessionInit
    /\ loadsLeft = MaxLoads
    /\ editsLeft = 0
    /\ probe = Probe("")

NextSettling ==
    \/ SelectFile
    \/ ReaderLoad
    \/ ReaderError
    \/ StartAnalysis
    \/ AnalysisReturns
    \/ AnalysisFails
    \/ ConfirmUpload
    \/ HandleBack
    \/ ResetUpload

SpecSettling ==
    InitSettling /\ [][NextSettling]_vars /\ WF_vars(AnalysisReturns \/ AnalysisFails)

(***************************************************************************)
(* A session that stays at the table: one import, then edits and removals. *)
(***************************************************************************)
InitTable ==
    /\ SessionInit
    /\ loadsLeft = MaxLoads
    /\ editsLeft = MaxTableEdits
    /\ probe = Probe("")

NextTable ==
    \/ SelectFile
    \/ ReaderLoad
    \/ ReaderError
    \/ EditParcel
    \/ RemoveParcel

SpecTable == InitTable /\ [][NextTable]_vars

(***************************************************************************)
(* A session without table events in which several files are selected.     *)
(***************************************************************************)
InitRequests ==
    /\ SessionInit
    /\ loadsLeft = MaxRequestLoads
    /\ editsLeft = 0
    /\ probe = Probe("")

SpecRequests == InitRequests /\ [][NextSettling]_vars

(***************************************************************************)
(* The phone functions on their own: a phone text is drawn, and each of    *)
(* the four functions is applied to it.                                    *)
(***************************************************************************)
PhoneHeads  == {"", "0", "1", "88", "880", "+880 ", "+88 0", "8800"}
PhoneBodies == {"1712345678", "1712-345678", " 1712345678", "2712345678",
                "1312345678", "17123456", "17123456789", "171234567890",
                "(171) 234-5678", "17x2345678"}
PhoneTexts  == {h \o b : h \in PhoneHeads, b \in PhoneBodies} \cup {"", "abc"}

InitPhone ==
    /\ SessionInit
    /\ loadsLeft = 0
    /\ editsLeft = 0
    /\ probe \in {Probe(s) : s \in PhoneTexts}

\* UploadPage.normalizePhone applied to the text
ApplyNormalizePhone ==
    /\ probe.upload = <<>>
    /\ probe' = [probe EXCEPT !.upload = <<normalizePhone(probe.input)>>]
    /\ UNCHANGED sessionVars

\* ParcelTable.normalizePhoneNumber applied to the text
ApplyNormalizePhoneNumber ==
    /\ probe.table = <<>>
    /\ probe' = [probe EXCEPT !.table = <<normalizePhoneNumber(probe.input)>>]
    /\ UNCHANGED sessionVars

\* UploadPage.validatePhone applied to the text
ApplyValidatePhone ==
    /\ probe.valid = <<>>
    /\ probe' = [probe EXCEPT !.valid = <<validatePhone(probe.input)>>]
    /\ UNCHANGED sessionVars

\* ParcelTable.validatePhone applied to the text
ApplyTableValidatePhone ==
    /\ probe.tableValid = <<>>
    /\ probe' = [probe EXCEPT !.tableValid = <<tableValidatePhone(probe.input)>>]
    /\ UNCHANGED sessionVars

NextPhone ==
    \/ ApplyNormalizePhone
    \/ ApplyNormalizePhoneNumber
    \/ ApplyValidatePhone
    \/ ApplyTableValidatePhone

SpecPhone == InitPhone /\ [][NextPhone]_vars

(***************************************************************************)
(* The import on its own: a text is drawn, the delimiter is sniffed, the   *)
(* text is tokenized, and the records are built from it.                   *)
(***************************************************************************)
CsvCells  == {"A", "\"B,C\"", "\"D\"\"E\"", " G ", "\"\"", "\"x;y\"", "\"a\nb\"", "", "\"u"}
CsvSeps   == {",", ";"}
CsvBreaks == {"\n", "\r\n", "\r"}
CsvTails  == {"", "F,G,H", "1;2;3;4", "\"p,q\";r;\"\"\"\""}
CsvTexts  ==
    {c1 \o s \o c2 \o b \o t : c1 \in CsvCells, s \in CsvSeps, c2 \in CsvCells,
                                 b \in CsvBreaks, t \in CsvTails}
    \cup {"A,\"B,C\",\"D\"\"E\"\nF,G,H", "a;b;c,d", "a,b;c,d,e", "", "abc", "\n\n;;\nx",
          "h\n\"\"\nA", "h\r\n \r\n\r\nA\r\n", "h\n\"a\r\nb\"\n\nc"}

\* three header cells and a data row whose cells tell their column
HeaderCells == {"Invoice ID", " PHONE ", "Customer", "Note", "xyz", "Tel No",
                "Weight (kg)", "COD Amount", "Full Address", "Msg"}
HeaderTexts ==
    {h1 \o "," \o h2 \o "," \o h3 \o "\n1x,2x,3x,4x,5x,6x,7x" :
        h1 \in HeaderCells, h2 \in HeaderCells, h3 \in HeaderCells}
    \cup {TemplateHeader \o "\n1x,2x,3x,4x,5x,6x,7x", "xyz\n1x,2x"}

\* the template's header and one data row, or two
RowTexts ==
    {TemplateHeader \o "\n" \o inv \o "," \o name \o "," \o phone \o "," \o addr
                    \o "," \o cod \o "," \o weight \o "," \o note :
        inv \in {"", "X"}, name \in {"", " "}, phone \in {"", "abc", "01712345678"},
        addr \in {"", "D"}, cod \in {"0", "5"}, weight \in {"0", "1"}, note \in {"", "n"}}
    \cup {TemplateHeader \o "\n,,abc,,5,1,n\nX,,,,0,0,", TemplateHeader \o "\n\n,A\n",
          TemplateHeader \o "\nX,A,01712345678,D,-5,-2.5,n",
          TemplateHeader \o "\nX,A,01712345678,D,Tk 1.250,\"1,5kg\",n\nY,B,01812345678,D,n/a,heavy",
          TemplateHeader \o "\nconstructor,A,01712345678,D,0,1,\nconstructor,B,01812345678,D,0,1,"}

\* a probe of the text s, neither sniffed nor tokenized nor imported yet
CsvProbe(s) == [input |-> s, delimiter |-> <<>>, rows |-> <<>>, parcels |-> <<>>]

InitCsv ==
    /\ SessionInit
    /\ loadsLeft = 0
    /\ editsLeft = 0
    /\ probe \in {CsvProbe(s) : s \in CsvTexts \cup HeaderTexts \cup RowTexts}

\* the delimiter parseCSVContent chooses for the text
ApplySniffDelimiter ==
    /\ probe.delimiter = <<>>
    /\ probe' = [probe EXCEPT !.delimiter = <<sniffDelimiter(probe.input)>>]
    /\ UNCHANGED sessionVars

\* parseCSVContent applied to the text
ApplyParseCSVContent ==
    /\ probe.rows = <<>>
    /\ probe' = [probe EXCEPT !.rows = <<parseCSVContent(probe.input)>>]
    /\ UNCHANGED sessionVars

\* processCSVData applied to the rows of the text, as reader.onload does
ApplyProcessCSVData ==
    /\ probe.parcels = <<>>
    /\ probe' = [probe EXCEPT !.parcels = <<processCSVData(parseCSVContent(probe.input), 0)>>]
    /\ UNCHANGED sessionVars

NextCsv ==
    \/ ApplySniffDelimiter
    \/ ApplyParseCSVContent
    \/ ApplyProcessCSVData

SpecCsv == InitCsv /\ [][NextCsv]_vars

(***************************************************************************)
(* The rules of the design specification that the properties below measure *)
(* the handlers against (section 4.5, Validation Engine).                  *)
(***************************************************************************)
\* step 1: the census of the non-empty trimmed invoice ids
EngineCensus(list, p) ==
    Cardinality({k \in 1..Len(list) : Trim(list[k].invoiceId) = Trim(p.invoiceId)})

\* the records of list that carry the invoice id of p as it is typed
TypedCensus(list, p) ==
    Cardinality({k \in 1..Len(list) : list[k].invoiceId = p.invoiceId})

\* step 2a
EngineDuplicate(list, p) == Trim(p.invoiceId) # "" /\ EngineCensus(list, p) > 1

\* step 2b, negated
EngineValidPhone(phone) ==
    /\ Len(phone) = 11
    /\ SubSeq(phone, 1, 3) \in {"017", "013", "016", "018", "019", "014", "015"}

\* step 2c
EngineMissing(p) ==
    p.invoiceId = "" \/ p.recipientName = "" \/ p.address = "" \/ LeqZero(p.weight)

DuplicateVerdict == <<"WARNING", DuplicateMsg>>

\* the status and reason the engine gives record p of list
EngineVerdict(list, p) ==
    IF EngineDuplicate(list, p) THEN DuplicateVerdict
    ELSE IF ~EngineValidPhone(p.phone) THEN <<"ERROR", PhoneMsg>>
    ELSE IF EngineMissing(p) THEN <<"ERROR", MissingMsg>>
    ELSE <<"VALID", undefined>>

\* the status and reason record p carries
VerdictOf(p) == <<p.status, p.statusMessage>>

\* two or more records share a non-empty trimmed invoice id
SharesInvoiceId(list) == \E i \in 1..Len(list) : EngineDuplicate(list, list[i])

\* the list blocks confirmation
Blocked(list) ==
    (\E i \in 1..Len(list) : list[i].status = "ERROR") \/ SharesInvoiceId(list)

\* the step that is being taken is the handler named op
Runs(op) == lastOp'.op = op

(***************************************************************************)
(* Properties.                                                             *)
(***************************************************************************)

\* C1: a confirmation attempt on a list that holds a record of status ERROR,
\* or two records with the same non-empty trimmed invoice id, emits no batch
\* and leaves step at 2.
C1_BlockedConfirmEmitsNothing ==
    [][(Runs("confirmUpload") /\ Blocked(parcels))
          => (batches' = batches /\ step = 2 /\ step' = 2)]_vars

\* C1, reached: a confirmation was refused on a list that has no ERROR record
\* but two records sharing a trimmed invoice id.
C1_RefusedOnSharedId ==
    /\ lastOp.op = "confirmUpload" /\ lastOp.updates = <<"blocked">>
    /\ SharesInvoiceId(parcels)
    /\ \A i \in 1..Len(parcels) : parcels[i].status # "ERROR"
    /\ step = 2 /\ batches = <<>>

\* C2: whenever the list is the result of an import followed by edits and
\* removals (no analysis overlay), every record carries the status and reason
\* the Validation Engine gives it over the whole current list.
C2_StatusIsEngineOutput ==
    trail = "clean" =>
        \A i \in 1..Len(parcels) :
            VerdictOf(parcels[i]) = EngineVerdict(parcels, parcels[i])

\* C3: in a list that is the result of an import followed by edits and
\* removals, every record whose non-empty trimmed invoice id is shared with
\* another record is WARNING / "Duplicate Invoice ID".
C3_DuplicateSymmetry ==
    trail = "clean" =>
        \A i \in 1..Len(parcels) :
            EngineDuplicate(parcels, parcels[i]) => VerdictOf(parcels[i]) = DuplicateVerdict

\* C4: a record whose invoice id is empty after trimming never carries
\* WARNING / "Duplicate Invoice ID", whatever import, edits and removals
\* produced the list.
C4_EmptyIdExempt ==
    trail = "clean" =>
        \A i \in 1..Len(parcels) :
            Trim(parcels[i].invoiceId) = "" => VerdictOf(parcels[i]) # DuplicateVerdict

\* the handler just run removed row i of prev; rows i and j were the only two
\* with their non-empty trimmed invoice id, both WARNING / "Duplicate Invoice
\* ID", and row j has a valid phone and all required fields
C5_Premise(i, j) ==
    /\ i # j
    /\ prev[i].id = lastOp.id
    /\ Trim(prev[i].invoiceId) # ""
    /\ {k \in 1..Len(prev) : Trim(prev[k].invoiceId) = Trim(prev[i].invoiceId)} = {i, j}
    /\ VerdictOf(prev[i]) = DuplicateVerdict
    /\ VerdictOf(prev[j]) = DuplicateVerdict
    /\ EngineValidPhone(prev[j].phone)
    /\ ~EngineMissing(prev[j])

\* the record of the list with the id of p is VALID with no reason
IsValidIn(list, p) ==
    \E k \in 1..Len(list) :
        list[k].id = p.id /\ VerdictOf(list[k]) = <<"VALID", undefined>>

\* C5: when R1 and R2 are the only two records with their non-empty invoice
\* id, both WARNING / "Duplicate Invoice ID", and R2 has a valid phone and all
\* required fields, then after the removal of R1 the record R2 is VALID with
\* no reason.
C5_RemovalHeals ==
    lastOp.op = "handleRemoveParcel" =>
        \A i, j \in 1..Len(prev) : C5_Premise(i, j) => IsValidIn(parcels, prev[j])

\* C5, reached: such a pair was separated and the survivor is VALID.
C5_HealedSurvivor ==
    /\ lastOp.op = "handleRemoveParcel"
    /\ \E i, j \in 1..Len(prev) : C5_Premise(i, j) /\ IsValidIn(parcels, prev[j])

\* C6: a record marked duplicate that stops being one when another record is
\* removed is ERROR / "Invalid Operator/Length" when its phone is invalid and
\* ERROR / "Missing Required Fields" when its phone is valid and a required
\* field is missing.
C6_HealedSiblingRechecked ==
    lastOp.op = "handleRemoveParcel" =>
        \A j \in 1..Len(prev), k \in 1..Len(parcels) :
            ( /\ parcels[k].id = prev[j].id
              /\ VerdictOf(prev[j]) = DuplicateVerdict
              /\ EngineDuplicate(prev, prev[j])
              /\ ~EngineDuplicate(parcels, parcels[k]) )
            => /\ ~EngineValidPhone(parcels[k].phone)
                    => VerdictOf(parcels[k]) = <<"ERROR", PhoneMsg>>
               /\ (EngineValidPhone(parcels[k].phone) /\ EngineMissing(parcels[k]))
                    => VerdictOf(parcels[k]) = <<"ERROR", MissingMsg>>

\* the edit just made typed a non-empty invoice id into row a, and row b
\* carries the same invoice id
C7_Premise(a, b) ==
    /\ lastOp.op = "updateParcel"
    /\ "invoiceId" \in DOMAIN lastOp.updates
    /\ lastOp.updates.invoiceId # ""
    /\ a # b
    /\ parcels[a].id = lastOp.id
    /\ parcels[b].invoiceId = lastOp.updates.invoiceId

\* C7: after an edit that sets the invoice id of record A to a non-empty value
\* that record B carries too, A and B are both WARNING / "Duplicate Invoice
\* ID" in the list the edit produced.
C7_EditCollision ==
    \A a, b \in 1..Len(parcels) :
        C7_Premise(a, b)
            => /\ VerdictOf(parcels[a]) = DuplicateVerdict
               /\ VerdictOf(parcels[b]) = DuplicateVerdict

\* C8: a confirmation that passes the gate appends exactly one batch, which
\* carries the list as it is, and moves step to 3; a blocked one appends
\* nothing; nothing else touches the batches; step leaves 3 only by a reset
\* and reaches 2 only by a successful import, so that there are never more
\* batches than files selected.
C8_OneBatchPerConfirmation ==
    /\ [](Len(batches) + loadsLeft <= MaxLoads)
    /\ [][ /\ (Runs("confirmUpload") /\ ~Blocked(parcels))
                => /\ Len(batches') = Len(batches) + 1
                   /\ SubSeq(batches', 1, Len(batches)) = batches
                   /\ batches'[Len(batches')].parcels = parcels
                   /\ batches'[Len(batches')].totalParcels = Len(parcels)
                   /\ step' = 3
           /\ (Runs("confirmUpload") /\ Blocked(parcels)) => batches' = batches
           /\ batches' # batches => (Runs("confirmUpload") /\ step = 2)
           /\ (step = 3 /\ step' # 3) => (Runs("resetUpload") /\ parcels' = <<>>)
           /\ (step # 2 /\ step' = 2) => (Runs("onload") /\ Len(parcels') > 0)
         ]_vars

\* C8, reached: a confirmation passed the gate and its batch is the list.
C8_BatchEmitted ==
    /\ lastOp.op = "confirmUpload" /\ lastOp.updates = <<"emitted">>
    /\ step = 3
    /\ Len(batches) = 1
    /\ batches[1].parcels = parcels

\* C9: from step 3 on, every step other than resetUpload leaves the session's
\* record list and the emitted batches as they are.
C9_FrozenAfterConfirm ==
    [][(step = 3 /\ ~Runs("resetUpload"))
          => (parcels' = parcels /\ batches' = batches)]_vars

\* what the normalisation rule makes of a phone text: the digits, less the
\* first two when they are 13 and start with 880 or 88, with a 0 in front when
\* they are 10 and start with 1
C10_Normal(phone) ==
    LET digits == KeepOnly(phone, Digits)
    IN  IF Len(digits) = 13 /\ (StartsWith(digits, "880") \/ StartsWith(digits, "88"))
        THEN Drop(digits, 2)
        ELSE IF Len(digits) = 10 /\ StartsWith(digits, "1")
        THEN "0" \o digits
        ELSE digits

C10_Examples == {"+880 1712-345678", "880 1712345678", "8801712345678", "1712345678"}

\* C10: normalizePhone (and the table's normalizePhoneNumber) follow the
\* normalisation rule and send the four example texts to "01712345678";
\* validatePhone (both copies) is true exactly for the texts of length 11
\* whose first three characters are an allowed prefix: true for
\* "01712345678", false for "02712345678" and "017123456".
C10_PhoneFunctions ==
    /\ \A out \in {probe.upload, probe.table} :
          out # <<>> =>
              /\ out[1] = C10_Normal(probe.input)
              /\ probe.input \in C10_Examples => out[1] = "01712345678"
    /\ \A ok \in {probe.valid, probe.tableValid} :
          ok # <<>> =>
              /\ ok[1] = EngineValidPhone(probe.input)
              /\ probe.input = "01712345678" => ok[1] = TRUE
              /\ probe.input \in {"02712345678", "017123456"} => ok[1] = FALSE

\* C10, reached: all four functions have been applied to "+880 1712-345678".
C10_ExampleNormalized ==
    /\ probe.input = "+880 1712-345678"
    /\ probe.upload = <<"01712345678">>
    /\ probe.table = <<"01712345678">>
    /\ probe.valid = <<FALSE>>
    /\ probe.tableValid = <<FALSE>>

\* the quotes before position i of text are even in number: position i lies
\* outside quotes
C11_Outside(text, i) ==
    Cardinality({j \in 1..(i - 1) : CharAt(text, j) = "\""}) % 2 = 0

\* the characters a..b of text that are field content: every character but
\* the quotes, and of every doubled quote inside a quoted part the second
RECURSIVE C11_Content(_, _, _)
C11_Content(text, a, b) ==
    IF a > b THEN ""
    ELSE C11_Content(text, a, b - 1)
         \o (IF CharAt(text, b) # "\"" THEN CharAt(text, b)
             ELSE IF b > 1 /\ CharAt(text, b - 1) = "\"" /\ C11_Outside(text, b)
             THEN "\"" ELSE "")

\* the positions a..b of text that hold one of chars outside quotes
C11_Cuts(text, chars, a, b) ==
    {i \in a..b : CharAt(text, i) \in chars /\ C11_Outside(text, i)}

\* the fields of the line a..b of text: cut at the delimiters outside quotes,
\* each field its content, trimmed
RECURSIVE C11_Fields(_, _, _, _)
C11_Fields(text, delimiter, a, b) ==
    With(C11_Cuts(text, {delimiter}, a, b), LAMBDA cuts :
         IF cuts = {} THEN <<Trim(C11_Content(text, a, b))>>
         ELSE <<Trim(C11_Content(text, a, Min(cuts) - 1))>>
              \o C11_Fields(text, delimiter, Min(cuts) + 1, b))

\* the rows of text from position a on: cut at the line breaks outside
\* quotes; a line with no delimiter and no content gives no row
RECURSIVE C11_Rows(_, _, _)
C11_Rows(text, delimiter, a) ==
    IF a > Len(text) THEN <<>>
    ELSE With(C11_Cuts(text, {"\r", "\n"}, a, Len(text)), LAMBDA breaks :
         With(IF breaks = {} THEN Len(text) ELSE Min(breaks) - 1, LAMBDA b :
              (IF C11_Cuts(text, {delimiter}, a, b) # {} \/ C11_Content(text, a, b) # ""
               THEN <<C11_Fields(text, delimiter, a, b)>> ELSE <<>>)
              \o C11_Rows(text, delimiter, b + 2)))

C11_Example == "A,\"B,C\",\"D\"\"E\"\nF,G,H"

\* C11: parseCSVContent cuts the text into fields at the delimiters that lie
\* outside quotes and nowhere else, keeps delimiters inside quotes as field
\* content, makes one quote of a doubled quote inside a quoted part, and
\* trims every field; A,"B,C","D""E" newline F,G,H gives the rows
\* [A, B,C, D"E] and [F, G, H].
C11_TokenizerQuoting ==
    probe.rows # <<>> =>
        /\ probe.rows[1] = C11_Rows(probe.input, sniffDelimiter(probe.input), 1)
        /\ probe.input = C11_Example
              => probe.rows[1] = << <<"A", "B,C", "D\"E">>, <<"F", "G", "H">> >>

\* C11, reached: the example text has been tokenized into its two rows.
C11_ExampleTokenized ==
    /\ probe.input = C11_Example
    /\ probe.rows = << << <<"A", "B,C", "D\"E">>, <<"F", "G", "H">> >> >>

\* C12: the delimiter chosen is ";" exactly when the first line of the text,
\* which ends at the first line break (\n, \r\n or \r), holds more ";" than
\* ","; it is "," otherwise, and nothing after that line break matters.
C12_SniffByFirstLine ==
    probe.delimiter # <<>> =>
        LET breaks == {i \in 1..Len(probe.input) : CharAt(probe.input, i) \in {"\r", "\n"}}
            line   == IF breaks = {} THEN probe.input
                      ELSE SubSeq(probe.input, 1, Min(breaks) - 1)
        IN  probe.delimiter[1] =
                IF CountChar(line, ";") > CountChar(line, ",") THEN ";" ELSE ","

\* the column (0-based) a canonical field resolves to under the header row:
\* the leftmost cell whose lower-cased trimmed text contains a keyword of
\* the field, the fallback index when there is none
C13_Column(header, keywords, fallback) ==
    LET hits == {j \in 1..Len(header) :
                    \E n \in 1..Len(keywords) :
                        Includes(Trim(toLowerCase(header[j])), keywords[n])}
    IN  IF hits = {} THEN fallback ELSE Min(hits) - 1

\* the trimmed cell of a data row in the column a field resolves to, empty
\* when the row is shorter
C13_Cell(row, header, keywords, fallback) ==
    LET c == C13_Column(header, keywords, fallback)
    IN  IF c + 1 <= Len(row) THEN Trim(row[c + 1]) ELSE ""

\* C13: every record built by the import takes each canonical field from the
\* leftmost header column containing one of the field's keywords and, when
\* there is none, from the fallback column (invoice 0, name 1, phone 2,
\* address 3, COD 4, weight 5, note 6); a header without a phone keyword
\* still gives records, with the phone read from column 2.
C13_HeaderInference ==
    (probe.rows # <<>> /\ probe.parcels # <<>> /\ Len(probe.rows[1]) > 0) =>
        LET header == probe.rows[1][1]
        IN  \A i \in 1..Len(probe.parcels[1]) :
                LET p   == probe.parcels[1][i]
                    row == probe.rows[1][p.id + 1]
                IN  /\ p.invoiceId = C13_Cell(row, header, invoiceKeywords, 0)
                    /\ p.recipientName = C13_Cell(row, header, nameKeywords, 1)
                    /\ p.phone = normalizePhone(C13_Cell(row, header, phoneKeywords, 2))
                    /\ p.address = C13_Cell(row, header, addressKeywords, 3)
                    /\ p.codAmount = OrZero(parseFloat(KeepOnly(
                           C13_Cell(row, header, codKeywords, 4), Digits \cup {"."})))
                    /\ p.weight = OrZero(parseFloat(ReplaceFirst(
                           C13_Cell(row, header, weightKeywords, 5), ",", ".")))
                    /\ p.note = C13_Cell(row, header, noteKeywords, 6)

\* C13, reached: under a header with no phone keyword (and none for address,
\* COD, weight and note) the record has its phone from column 2, while the
\* name comes from the column headed "Customer".
C13_PhoneFromFallback ==
    /\ probe.input = "Invoice ID,xyz,Customer\n1x,2x,3x,4x,5x,6x,7x"
    /\ probe.rows # <<>>
    /\ probe.parcels # <<>> /\ Len(probe.parcels[1]) = 1
    /\ probe.parcels[1][1].invoiceId = "1x"
    /\ probe.parcels[1][1].recipientName = "3x"
    /\ probe.parcels[1][1].phone = "3"
    /\ probe.parcels[1][1].address = "4x"
    /\ probe.parcels[1][1].weight = Norm(6, 0)
    /\ probe.parcels[1][1].note = "7x"

\* C14: a data row gives no record exactly when the invoice id, the name,
\* the normalized phone and the address extracted from it are all empty:
\* zero weight and zero COD amount do not drop a row, a weight or a note do
\* not keep one.
C14_RowFilter ==
    (probe.rows # <<>> /\ probe.parcels # <<>> /\ Len(probe.rows[1]) > 0) =>
        LET header == probe.rows[1][1]
        IN  \A k \in 1..(Len(probe.rows[1]) - 1) :
                LET row == probe.rows[1][k + 1]
                IN  (\A i \in 1..Len(probe.parcels[1]) : probe.parcels[1][i].id # k)
                    <=> /\ C13_Cell(row, header, invoiceKeywords, 0) = ""
                        /\ C13_Cell(row, header, nameKeywords, 1) = ""
                        /\ normalizePhone(C13_Cell(row, header, phoneKeywords, 2)) = ""
                        /\ C13_Cell(row, header, addressKeywords, 3) = ""

\* C14, reached: of two data rows the first, with a phone text without
\* digits, a COD amount, a weight and a note, gave no record, and the second,
\* with an invoice id and zero weight and COD amount, gave one.
C14_OnlyIdentifiedRowKept ==
    /\ probe.input = TemplateHeader \o "\n,,abc,,5,1,n\nX,,,,0,0,"
    /\ probe.rows # <<>> /\ Len(probe.rows[1]) = 3
    /\ probe.parcels # <<>> /\ Len(probe.parcels[1]) = 1
    /\ probe.parcels[1][1].id = 2
    /\ probe.parcels[1][1].invoiceId = "X"
    /\ probe.parcels[1][1].weight = Zero
    /\ probe.parcels[1][1].codAmount = Zero

\* C15: after a failed upload (the read of the file failed, or no record
\* survived the row filter) an error message is set, isReading is false
\* again, step is 1 and the record list is empty.
C15_FailedUploadLeavesNoData ==
    (lastOp.op = "onerror" \/ (lastOp.op = "onload" /\ step = 1)) =>
        /\ uploadError # undefined
        /\ ~isReading
        /\ step = 1
        /\ parcels = <<>>

\* C16: when the analysis call fails, startAIAnalysis leaves every record
\* with the status and the reason it had when the call was started, PENDING
\* included.
C16_FailureKeepsStatus ==
    [][Runs("analysisFails") =>
          /\ Len(parcels') = Len(Head(aiCall))
          /\ \A i \in 1..Len(parcels') :
                 VerdictOf(parcels'[i]) = VerdictOf(Head(aiCall)[i])]_vars

\* C17: an analysis that was started finishes, with isAnalyzing false again
\* and aiResult set, at the latest when the answer of the collaborator has
\* arrived; when the collaborator fails the handler still runs to
\* its end, and aiResult is the fallback: its fixed summary, two
\* recommendations and no corrections.
C17_FailedCallSettles ==
    /\ isAnalyzing ~> (~isAnalyzing /\ aiResult # <<>>)
    /\ [][Len(aiCall') < Len(aiCall) => (~isAnalyzing' /\ aiResult' # <<>>)]_vars
    /\ [][Runs("analysisFails") =>
             /\ ~isAnalyzing'
             /\ aiCall' = Tail(aiCall)
             /\ aiResult' # <<>>
             /\ aiResult'[1].summary = "Could not complete AI analysis at this time."
             /\ Len(aiResult'[1].recommendations) = 2
             /\ aiResult'[1].correctedParcels = <<>>]_vars

\* C18: the re-validation of updateParcel, applied to a list it has produced,
\* gives every record the status and the reason it has already: both for
\* the list an edit has just produced and for the re-validation of any list
\* of the table.
C18_RevalidationIdempotent ==
    /\ revalidateAll(revalidateAll(parcels)) = revalidateAll(parcels)
    /\ lastOp.op = "updateParcel" => revalidateAll(parcels) = parcels

\* C18, reached: an edit has produced a list with a duplicate pair, or a
\* record in error, that a second re-validation leaves as it is, where the
\* list before the edit was not yet a fixed point.
C18_EditedListIsFixedPoint ==
    /\ lastOp.op = "updateParcel"
    /\ \E i \in 1..Len(parcels) : parcels[i].status \in {"WARNING", "ERROR"}
    /\ revalidateAll(prev) # prev
    /\ revalidateAll(parcels) = parcels

\* C19: the batch a confirmation emits carries the list as it is at that
\* moment, its length as totalParcels, the number of its VALID records as
\* validParcels and the number of its ERROR records as errorParcels; no
\* later step changes a batch that has been emitted.
C19_BatchCounts ==
    /\ [](\A n \in 1..Len(batches) :
             LET b == batches[n]
             IN  /\ b.totalParcels = Len(b.parcels)
                 /\ b.validParcels =
                        Cardinality({i \in 1..Len(b.parcels) : b.parcels[i].status = "VALID"})
                 /\ b.errorParcels =
                        Cardinality({i \in 1..Len(b.parcels) : b.parcels[i].status = "ERROR"}))
    /\ [][ /\ Len(batches') >= Len(batches)
           /\ SubSeq(batches', 1, Len(batches)) = batches
           /\ Len(batches') > Len(batches)
                => /\ Len(batches') = Len(batches) + 1
                   /\ batches'[Len(batches')].parcels = parcels ]_vars

\* C19, reached: a batch of two records, one of them VALID and none ERROR,
\* was emitted, and the session has been reset since.
C19_BatchOutlivesSession ==
    /\ lastOp.op = "resetUpload"
    /\ parcels = <<>>
    /\ Len(batches) = 1
    /\ batches[1].totalParcels = 2
    /\ batches[1].validParcels = 1
    /\ batches[1].errorParcels = 0
    /\ Len(batches[1].parcels) = 2

\* C20: in every state of a session (the analysis results of the model carry
\* a non-empty issue in each correction) a record has a reason exactly when
\* its status is neither VALID nor PENDING.
C20_ReasonIffFlagged ==
    \A i \in 1..Len(parcels) :
        parcels[i].statusMessage # undefined <=> parcels[i].status \notin {"VALID", "PENDING"}

\* C20, reached: an analysis has returned a correction for one of two
\* records; that record is WARNING with the issue as its reason, the other
\* went from PENDING to VALID and has no reason.
C20_OverlaidListConsistent ==
    /\ lastOp.op = "analysisReturns"
    /\ Len(parcels) = 2
    /\ \E i, j \in 1..2 :
          /\ parcels[i].status = "WARNING" /\ parcels[i].statusMessage = "I"
          /\ parcels[j].status = "VALID" /\ parcels[j].statusMessage = undefined

\* C21: every record of the list, whether the import built it or an edit
\* changed it, has a COD amount >= 0 and a weight >= 0.
C21_NonNegativeAmounts ==
    \A i \in 1..Len(parcels) :
        GeqZero(parcels[i].codAmount) /\ GeqZero(parcels[i].weight)

\* C22: in the list an edit has re-validated, the first check that matches
\* decides, in the order duplicate, invalid phone, missing required fields.
\* A record whose non-empty invoice id another record carries too is
\* WARNING / "Duplicate Invoice ID", whatever its phone and fields; a record
\* that shares its invoice id with no other (neither as typed nor up to
\* white space: whether white space makes or unmakes a duplicate is not the
\* matter of this property) is
\* ERROR / "Invalid Operator/Length" when its phone is invalid, whatever its
\* fields, ERROR / "Missing Required Fields" when only a field is missing,
\* and VALID without reason when nothing matches.
C22_ValidationPriority ==
    lastOp.op = "updateParcel" =>
        \A i \in 1..Len(parcels) :
            LET p == parcels[i]
            IN  /\ (p.invoiceId # "" /\ TypedCensus(parcels, p) > 1)
                      => VerdictOf(p) = DuplicateVerdict
                /\ (~EngineDuplicate(parcels, p) /\ TypedCensus(parcels, p) <= 1)
                      => VerdictOf(p) =
                            IF ~EngineValidPhone(p.phone) THEN <<"ERROR", PhoneMsg>>
                            ELSE IF EngineMissing(p) THEN <<"ERROR", MissingMsg>>
                            ELSE <<"VALID", undefined>>

\* C23: when an analysis result is applied to the list the call was started
\* with, the new list has the same records in the same order; a record whose
\* id has a correction is WARNING, its reason is the issue, or the old reason
\* followed by " & " and the issue when it had one, and its address is the
\* suggested address when the correction carries one; a record without
\* correction goes from PENDING to VALID or keeps its status; nothing else
\* changes in a record.
C23_OverlayApplication ==
    [][(Runs("analysisReturns") \/ Runs("analysisFails")) =>
          LET captured == Head(aiCall)
              fixes    == aiResult'[1].correctedParcels
          IN  /\ Len(parcels') = Len(captured)
              /\ \A i \in 1..Len(captured) :
                    LET old  == captured[i]
                        new  == parcels'[i]
                        hits == {n \in 1..Len(fixes) : fixes[n].id = old.id}
                    IN  IF hits # {}
                        THEN LET fix == fixes[Min(hits)]
                             IN  /\ new.status = "WARNING"
                                 /\ new.statusMessage =
                                       IF old.statusMessage \in {undefined, ""}
                                       THEN fix.issue
                                       ELSE old.statusMessage \o " & " \o fix.issue
                                 /\ new.address =
                                       IF fix.suggestedAddress \in {undefined, ""}
                                       THEN old.address ELSE fix.suggestedAddress
                                 /\ [new EXCEPT !.status = old.status,
                                                !.statusMessage = old.statusMessage,
                                                !.address = old.address] = old
                        ELSE /\ new.status = IF old.status = "PENDING" THEN "VALID"
                                             ELSE old.status
                             /\ [new EXCEPT !.status = old.status] = old]_vars

\* C23, reached: a result has been applied whose correction, with a suggested
\* address, met a record marked as duplicate, while the other record has no
\* correction and kept its status.
C23_IssueAppended ==
    /\ lastOp.op = "analysisReturns"
    /\ Len(parcels) = 2
    /\ parcels[1].status = "WARNING"
    /\ parcels[1].statusMessage = "Duplicate Invoice ID & I"
    /\ parcels[1].address = "S"
    /\ VerdictOf(parcels[2]) = DuplicateVerdict
    /\ parcels[2].address = "D"

\* C24: startAIAnalysis keeps the list the call was started with, and when
\* a result arrives that the overlay applies to (one that has its
\* correctedParcels, the fallback included) the record list becomes the
\* overlay of that list, whatever has happened to the list since: every
\* record the call was started with is back, with the data it had then (the
\* address apart, which a correction may replace).  A call in flight ends
\* only by the arrival of its answer: no event of the operator cancels it.
C24_LateResultOverwrites ==
    [][ /\ Runs("startAIAnalysis") => aiCall' = Append(aiCall, parcels)
        /\ (Runs("analysisReturns") \/ Runs("analysisFails")) =>
              /\ parcels' = overlay(Head(aiCall), aiResult'[1])
              /\ Len(parcels') = Len(Head(aiCall))
              /\ \A i \in 1..Len(parcels') :
                    [parcels'[i] EXCEPT !.status = "", !.statusMessage = "", !.address = ""]
                    = [Head(aiCall)[i] EXCEPT !.status = "", !.statusMessage = "",
                                             !.address = ""]
        /\ Len(aiCall') < Len(aiCall) =>
              (Runs("analysisReturns") \/ Runs("analysisFails")
               \/ Runs("analysisThrows")) ]_vars

\* C24, reached: the batch was confirmed and then discarded while the call
\* was in flight, which emptied the list, and the result that arrived
\* afterwards has put the records back, at step 1.
C24_DiscardedListRestored ==
    /\ lastOp.op \in {"analysisReturns", "analysisFails"}
    /\ loadsLeft = 0
    /\ Len(batches) = 1
    /\ step = 1
    /\ Len(parcels) = 2
    /\ aiResult # <<>>

\* C25: at every moment at most one file read and at most one analysis call
\* are in flight: a read is in flight only while isReading, a call only
\* while isAnalyzing and with no result displayed; a file is selected only
\* when no read is in flight, and an analysis is started only when no call
\* is in flight and no result is displayed, also after Back, Discard and a
\* new import.
C25_SingleInFlight ==
    /\ []( /\ Len(reader) <= 1
           /\ Len(aiCall) <= 1
           /\ reader # <<>> => isReading
           /\ aiCall # <<>> => (isAnalyzing /\ aiResult = <<>>) )
    /\ [][ /\ Runs("handleFileUpload") => (reader = <<>> /\ Len(reader') = 1)
           /\ Runs("startAIAnalysis") => (aiCall = <<>> /\ Len(aiCall') = 1) ]_vars

\* C25, reached: with the call started on the first file still in flight,
\* the operator went back and selected a second file, whose read is in
\* flight too: one read, one call.
C25_ReadAndCallInFlight ==
    /\ uuid > 0
    /\ step = 1
    /\ Len(reader) = 1 /\ isReading
    /\ Len(aiCall) = 1 /\ isAnalyzing

\* C26: the tokenizer gives as many rows as the text has non-empty logical
\* lines, a logical line ending at a \r or \n outside quotes (\r\n being one
\* break) or at the end of the text, line breaks inside quotes being part of
\* the line.
C26_RowsAreNonEmptyLines ==
    probe.rows # <<>> =>
        LET text   == probe.input
            breaks == C11_Cuts(text, {"\r", "\n"}, 1, Len(text))
            starts == {a \in 1..Len(text) : a \notin breaks /\ (a = 1 \/ a - 1 \in breaks)}
        IN  Len(probe.rows[1]) = Cardinality(starts)

\* C27: processCSVData gives a list of records for every tokenized text with
\* at least one row, with no more records than data rows; in each record a
\* field whose column lies beyond the end of the data row is empty, COD
\* amount and weight are numbers (never NaN), and they are 0 when their
\* cell holds no digit at all.
C27_ParseLeniency ==
    (probe.rows # <<>> /\ probe.parcels # <<>> /\ Len(probe.rows[1]) > 0) =>
        LET header == probe.rows[1][1]
            list   == probe.parcels[1]
        IN  /\ DOMAIN list = 1..Len(list)
            /\ Len(list) <= Len(probe.rows[1]) - 1
            /\ \A i \in 1..Len(list) :
                  LET p      == list[i]
                      row    == probe.rows[1][p.id + 1]
                      Beyond(keywords, fallback) ==
                          C13_Column(header, keywords, fallback) >= Len(row)
                      NoDigit(keywords, fallback) ==
                          KeepOnly(C13_Cell(row, header, keywords, fallback), Digits) = ""
                  IN  /\ Beyond(invoiceKeywords, 0) => p.invoiceId = ""
                      /\ Beyond(nameKeywords, 1) => p.recipientName = ""
                      /\ Beyond(phoneKeywords, 2) => p.phone = ""
                      /\ Beyond(addressKeywords, 3) => p.address = ""
                      /\ Beyond(noteKeywords, 6) => p.note = ""
                      /\ p.codAmount.k # "nan" /\ p.weight.k # "nan"
                      /\ NoDigit(codKeywords, 4) => p.codAmount = Zero
                      /\ NoDigit(weightKeywords, 5) => p.weight = Zero

\* C27, reached: of two data rows the first has its amounts wrapped in text
\* and still parsed, the second has no number in its COD and weight cells
\* and no note cell at all; both gave a record.
C27_MalformedRowsImported ==
    /\ probe.input = TemplateHeader
          \o "\nX,A,01712345678,D,Tk 1.250,\"1,5kg\",n\nY,B,01812345678,D,n/a,heavy"
    /\ probe.rows # <<>>
    /\ probe.parcels # <<>> /\ Len(probe.parcels[1]) = 2
    /\ probe.parcels[1][1].codAmount = Norm(125, -2)
    /\ probe.parcels[1][1].weight = Norm(15, -1)
    /\ probe.parcels[1][2].codAmount = Zero
    /\ probe.parcels[1][2].weight = Zero
    /\ probe.parcels[1][2].note = ""

\* C28: the ids of the list are pairwise distinct; an edit keeps the length
\* of the list and the id at every position, and changes nothing but status
\* and reason in the records other than the edited one; a removal takes out
\* exactly the record with the id given, keeps the others in their order and
\* changes nothing but status and reason in them; with an id that no record
\* carries, both leave every record as it is, status and reason apart.
C28_FrameOfEditAndRemoval ==
    LET Data(p) == [p EXCEPT !.status = "", !.statusMessage = ""]
        DataOf(list) == [i \in 1..Len(list) |-> Data(list[i])]
    IN  /\ \A i, j \in 1..Len(parcels) : i # j => parcels[i].id # parcels[j].id
        /\ lastOp.op = "updateParcel" =>
              /\ Len(parcels) = Len(prev)
              /\ \A i \in 1..Len(prev) :
                    /\ parcels[i].id = prev[i].id
                    /\ prev[i].id # lastOp.id => Data(parcels[i]) = Data(prev[i])
        /\ lastOp.op = "handleRemoveParcel" =>
              /\ Len(parcels) = Len(prev) - 1
              /\ \A i \in 1..Len(parcels) : parcels[i].id # lastOp.id
              /\ DataOf(parcels) = DataOf(SelectSeq(prev, LAMBDA p : p.id # lastOp.id))
        /\ DataOf(updateParcel(parcels, 0, [note |-> "zz", phone |-> "1"])) = DataOf(parcels)
        /\ DataOf(handleRemoveParcel(parcels, 0)) = DataOf(parcels)

\* C28, reached: an edit of the first record has changed the status of the
\* second, and nothing else in it.
C28_SiblingStatusOnly ==
    /\ lastOp.op = "updateParcel"
    /\ Len(parcels) = 2 /\ Len(prev) = 2
    /\ lastOp.id = prev[1].id
    /\ parcels[2].status # prev[2].status
    /\ [parcels[2] EXCEPT !.status = "", !.statusMessage = ""]
         = [prev[2] EXCEPT !.status = "", !.statusMessage = ""]

\* C29: normalizePhone and the table's normalizePhoneNumber give a text of
\* digits that they leave as it is when applied again, for every phone text;
\* and in every state of a session the phone of every record is such a text:
\* digits only, and unchanged by both functions.
C29_StoredPhonesNormalized ==
    /\ \A x \in PhoneTexts \cup PhoneInputs :
          /\ KeepOnly(normalizePhone(x), Digits) = normalizePhone(x)
          /\ normalizePhone(normalizePhone(x)) = normalizePhone(x)
          /\ normalizePhoneNumber(normalizePhoneNumber(x)) = normalizePhoneNumber(x)
    /\ [](\A i \in 1..Len(parcels) :
             /\ KeepOnly(parcels[i].phone, Digits) = parcels[i].phone
             /\ normalizePhone(parcels[i].phone) = parcels[i].phone
             /\ normalizePhoneNumber(parcels[i].phone) = parcels[i].phone)

\* C29, reached: "+880 1712-345678" was typed into the phone input of a
\* record, which holds 01712345678 now.
C29_TypedPhoneStoredNormalized ==
    /\ lastOp.op = "updateParcel"
    /\ lastOp.updates = [phone |-> "+880 1712-345678"]
    /\ \E i \in 1..Len(parcels) :
          /\ parcels[i].id = lastOp.id
          /\ parcels[i].phone = "01712345678"
          /\ \E k \in 1..Len(prev) : prev[k].id = lastOp.id /\ prev[k].phone # "01712345678"

====
